---- MODULE Spec2Model ----
(***************************************************************************)
(* Model of src/server.js: the MCP host of the "vive" inventory lookup.    *)
(*                                                                         *)
(* Two parts share the module.                                             *)
(*   - The content resolver: the registered tool handler,                  *)
(*     lookupOperaByInventario and fetchJson, as one process per tool      *)
(*     invocation (specification SpecLookup).                              *)
(*   - The protocol dispatcher: the POST/GET/DELETE handlers of /mcp, the  *)
(*     session registry and the two transport callbacks (specification     *)
(*     Spec).                                                              *)
(* Node runs the handlers on one thread, so every action below is the code *)
(* that runs between two suspension points on real I/O.                    *)
(***************************************************************************)
EXTENDS Integers, Sequences, FiniteSets, TLC

\* ---------------------------------------------------------------- bounds
\* Number of tool invocations that may be in flight together.
MaxCalls == 2

Calls == 1..MaxCalls

\* Inventory numbers a client passes (z.string().min(1): non-empty).  The
\* value only travels into the query URL; no branch of the code reads it.
Identifiers == {"10220"}

\* Statuses the repository answers with.
Statuses == {200, 400, 403, 404}

\* Response bodies the repository answers with, by what fetchJson and
\* lookupOperaByInventario read of them:
\*   text   - the raw text is non-empty
\*   parses - JSON.parse(text) succeeds
\*   errors - the document has a top-level errors list
\*   data   - the shape of the top-level data member
Bodies ==
    { [text |-> FALSE, parses |-> FALSE, errors |-> FALSE, data |-> "absent"],
      [text |-> TRUE,  parses |-> FALSE, errors |-> FALSE, data |-> "absent"],
      [text |-> TRUE,  parses |-> TRUE,  errors |-> TRUE,  data |-> "absent"],
      [text |-> TRUE,  parses |-> TRUE,  errors |-> FALSE, data |-> "null"],
      [text |-> TRUE,  parses |-> TRUE,  errors |-> FALSE, data |-> "emptyList"],
      [text |-> TRUE,  parses |-> TRUE,  errors |-> FALSE, data |-> "list"],
      [text |-> TRUE,  parses |-> TRUE,  errors |-> FALSE, data |-> "single"] }

\* What the identifier DRUPAL_BASIC_AUTH evaluates to at line 32.  The module
\* declares DRUPAL_BEARER_TOKEN (line 15) and never DRUPAL_BASIC_AUTH, so the
\* name resolves against the global object of the process: "unbound" is the
\* process started as the repository ships it (a ReferenceError), "empty" and
\* "set" are a global of that name holding a falsy or a truthy value.
BasicAuthValues == {"unbound", "empty", "set"}

\* Number of transports (sessions) the process builds.
MaxTransports == 2

\* Number of forwarded DELETE messages one transport may hold unprocessed.
MaxPending == 1

Transports == 1..MaxTransports

\* Longest side-loaded list (payload.included) and longest reference list
\* (relationships.<field>.data) of a document.
MaxIncluded == 2
MaxRefs == 2

\* Number of fragments an HTML description is put together from.
MaxFrags == 3

\* The mcp-session-id header: absent, or an opaque string.  <<n>> is the n-th
\* value randomUUID() returned; <<0>> is a string the server never issued.
NoHeader == << >>
ForgedId == << 0 >>

\* Bodies of a POST, by what isInitializeRequest says of them.
PostBodies == {"initialize", "tools/call", "malformed"}

VARIABLES
    basicAuth,  \* value of the free identifier DRUPAL_BASIC_AUTH
    call,       \* call[c]: the tool invocation c
    sessions,   \* the Map of line 19: session id -> {transport, server}
    tr,         \* tr[t]: the t-th transport built, with its McpServer
    last,       \* the step just taken: the message handled and what became of it
    names,      \* one application of resolveIncludedNames: input and result
    strip       \* one application of stripHtml: input and result

vars == <<basicAuth, call, sessions, tr, last, names, strip>>

textVars == <<names, strip>>

lookupVars == <<basicAuth, call>>

dispatchVars == <<sessions, tr, last>>

\* ------------------------------------------------------------- resolver

NoOutcome == [tag |-> "none", status |-> 0, details |-> "none"]

\* No response body read.
NoBody == [text |-> FALSE, parses |-> FALSE, errors |-> FALSE, data |-> "none"]

IdleCall ==
    [ pc        |-> "idle",      \* idle, awaitResponse, awaitBody, done
      id        |-> "",          \* numero_inventario
      issued    |-> << >>,       \* the outbound requests made, in order
      status    |-> 0,           \* res.status of the response being read
      first     |-> 0,           \* status of the completed first query, 0 if none
      final     |-> NoBody,      \* body of the response the outcome was made from
      timer     |-> FALSE,       \* the setTimeout of fetchJson is armed
      aborted   |-> FALSE,       \* controller.abort() ran
      thrown    |-> "none",      \* what lookupOperaByInventario threw
      outcome   |-> NoOutcome,   \* what lookupOperaByInventario returned
      result    |-> "none" ]     \* how the tool handler ended

\* buildOperaUrlWithFilterParams: the compact filter encoding.
buildOperaUrlWithFilterParams(numeroInventario) ==
    [ filter  |-> "compact",
      limit   |-> 1,
      value   |-> numeroInventario,
      include |-> << "field_autore", "field_tipologia", "field_luogo",
                     "field_tecnica", "field_materiale", "field_schedatore" >> ]

\* buildOperaUrlWithFilterParamsVerboseFallback: the verbose condition encoding.
buildOperaUrlWithFilterParamsVerboseFallback(numeroInventario) ==
    [ filter  |-> "verbose",
      limit   |-> 1,
      value   |-> numeroInventario,
      include |-> << "field_autore", "field_tipologia", "field_luogo",
                     "field_tecnica", "field_materiale", "field_schedatore" >> ]

\* res.ok of the fetch Response: a status in 200..299.
ResponseOk(status) == status >= 200 /\ status <= 299

\* Line 145 with the status test left out: a retry after any failure.
RetryOnStatus_AnyFailure(status) == ~ResponseOk(status)

\* Line 145: the condition under which the verbose query is made.
RetryOnStatus(status) ==
    ~ResponseOk(status) /\ (status = 400 \/ status = 403)

\* Lines 43-47: json is the parsed document, or null when parsing throws or
\* the text is empty.
ParsedJson(body) == IF body.text /\ body.parses THEN "document" ELSE "null"

\* Line 154: res.json?.errors || res.text?.slice(0, 500) || null
FailureDetails(body) ==
    IF ParsedJson(body) = "document" /\ body.errors THEN "errors"
    ELSE IF body.text THEN "text"
    ELSE "null"

\* Lines 158-161 with the payload's data tested instead of its first
\* element: an empty list is truthy.
ItemPresent_DataTruthy(body) ==
    /\ ParsedJson(body) = "document"
    /\ body.data \in {"list", "single", "emptyList"}

\* Lines 158-161: the item taken from the payload is present.
ItemPresent(body) ==
    /\ ParsedJson(body) = "document"
    /\ body.data \in {"list", "single"}

\* Lines 150-208: the value lookupOperaByInventario returns for the final
\* response.
LookupOutcome(status, body) ==
    IF ~ResponseOk(status)
        THEN [tag |-> "RequestFailed", status |-> status,
              details |-> FailureDetails(body)]
    ELSE IF ~ItemPresent(body)
        THEN [tag |-> "NotFound", status |-> status, details |-> "none"]
    ELSE [tag |-> "Found", status |-> status, details |-> "none"]

\* Lines 55-57 without the finally block: the timer stays armed when
\* fetchJson rejects.
Rejected_NoFinally(c, why) ==
    [call[c] EXCEPT !.pc = "done", !.status = 0,
                    !.thrown = why, !.result = "threw"]

\* Lines 55-57 and 142/147, 238: a rejection inside fetchJson runs the finally
\* block (clearTimeout) and, there being no catch, rejects fetchJson, the
\* await in lookupOperaByInventario and the await in the tool handler.
Rejected(c, why) ==
    [call[c] EXCEPT !.pc = "done", !.timer = FALSE, !.status = 0,
                    !.thrown = why, !.result = "threw"]

\* Lines 23-36: fetchJson up to its first suspension: the timer is armed, the
\* headers are evaluated (DRUPAL_BASIC_AUTH is read) and the request is made.
FetchJsonStart(c, rec, url) ==
    IF basicAuth = "unbound"
        THEN [rec EXCEPT !.pc = "done", !.timer = FALSE, !.status = 0,
                         !.thrown = "ReferenceError", !.result = "threw"]
        ELSE [rec EXCEPT !.pc = "awaitResponse", !.timer = TRUE,
                         !.aborted = FALSE, !.status = 0,
                         !.issued = Append(@, url)]

\* Lines 237-238, 141-142: the tool handler is invoked with a validated
\* numero_inventario and calls lookupOperaByInventario, which builds the
\* compact URL and calls fetchJson.
\* Invocations are numbered in the order in which they start.
ToolInvoke(c, id) ==
    /\ call[c].pc = "idle"
    /\ \A d \in Calls : d < c => call[d].pc # "idle"
    /\ call' = [call EXCEPT ![c] =
            FetchJsonStart(c, [call[c] EXCEPT !.id = id],
                           buildOperaUrlWithFilterParams(id))]
    /\ UNCHANGED <<basicAuth, dispatchVars, textVars>>

\* Line 28: the fetch promise fulfils with a Response of some status.
FetchResponse(c, status) ==
    /\ call[c].pc = "awaitResponse"
    /\ call' = [call EXCEPT ![c] = [@ EXCEPT !.pc = "awaitBody",
                                             !.status = status]]
    /\ UNCHANGED <<basicAuth, dispatchVars, textVars>>

\* Line 28: the fetch promise rejects (DNS, connection refused, TLS, ...).
FetchNetworkError(c) ==
    /\ call[c].pc = "awaitResponse"
    /\ call' = [call EXCEPT ![c] = Rejected(c, "TypeError")]
    /\ UNCHANGED <<basicAuth, dispatchVars, textVars>>

\* Line 24: the timer fires while the request or the body read is pending;
\* controller.abort() rejects the pending fetch or text() with an AbortError.
TimeoutFires(c) ==
    /\ call[c].timer
    /\ call[c].pc \in {"awaitResponse", "awaitBody"}
    /\ call' = [call EXCEPT ![c] =
            [Rejected(c, "AbortError") EXCEPT !.aborted = TRUE]]
    /\ UNCHANGED <<basicAuth, dispatchVars, textVars>>

\* Line 40: reading the body fails (the connection drops mid-body).
BodyReadError(c) ==
    /\ call[c].pc = "awaitBody"
    /\ call' = [call EXCEPT ![c] = Rejected(c, "TypeError")]
    /\ UNCHANGED <<basicAuth, dispatchVars, textVars>>

\* Lines 252-262: the tool handler returns the lookup's value as
\* structuredContent.
HandlerReturns(rec, outcome) ==
    [rec EXCEPT !.pc = "done", !.outcome = outcome, !.result = "structured"]

\* Lines 40-57, 145-209: the body is read, fetchJson returns
\* {ok, status, json, text} after clearTimeout, and lookupOperaByInventario
\* goes on: the verbose retry after the first query, otherwise the outcome.
BodyArrives(c, body) ==
    /\ call[c].pc = "awaitBody"
    /\ LET rec    == [call[c] EXCEPT !.timer = FALSE]
           status == call[c].status
           isFirst == Len(call[c].issued) = 1
           seen   == IF isFirst THEN [rec EXCEPT !.first = status] ELSE rec
       IN call' = [call EXCEPT ![c] =
            IF isFirst /\ RetryOnStatus(status)
                THEN FetchJsonStart(c, seen,
                        buildOperaUrlWithFilterParamsVerboseFallback(rec.id))
                ELSE HandlerReturns([seen EXCEPT !.final = body],
                                    LookupOutcome(status, body))]
    /\ UNCHANGED <<basicAuth, dispatchVars, textVars>>

NextLookup ==
    \E c \in Calls :
        \/ \E id \in Identifiers : ToolInvoke(c, id)
        \/ \E status \in Statuses : FetchResponse(c, status)
        \/ FetchNetworkError(c)
        \/ TimeoutFires(c)
        \/ BodyReadError(c)
        \/ \E body \in Bodies : BodyArrives(c, body)

\* ----------------------------------------------------------- dispatcher

\* A transport not built yet.
NoTransport ==
    [ phase        |-> "none",   \* none, connecting, refused, live, closed
      sessionId    |-> NoHeader, \* transport.sessionId, undefined until initialized
      onclose      |-> FALSE,    \* transport.onclose is bound (line 299)
      serverClosed |-> FALSE,    \* server.close() was called (line 301)
      closes       |-> 0,        \* times transport.onclose ran
      removed      |-> 0,        \* times sessions.delete removed its entry
      pending      |-> 0,        \* DELETE messages handed to it, not yet processed
      header       |-> NoHeader ]\* mcp-session-id of the POST that built it

\* null of line 281/330/343, as a registry entry.
Null == [transport |-> 0, server |-> 0]

\* The step just taken.
\*   status, code, message - the response the handler itself wrote, if any
\*   fault     - the exception raised while the message was handled
\*   responses - responses begun for the request, the transport's included
\*   escaped   - the exception left the handler as a rejected promise
NoEvent ==
    [ method |-> "none", header |-> NoHeader, body |-> "none",
      disp   |-> "none", target |-> 0, status |-> 0, code |-> 0,
      message |-> "", fault |-> "none", responses |-> 0,
      escaped |-> FALSE ]

\* What a call into the transport (handleRequest, server.connect) may do:
\* return, throw before the response headers are sent ("early"), or throw
\* after the transport has sent them ("late": res.headersSent is true).
Faults == {"none", "early", "late"}

\* Lines 281, 330, 343 with a lookup that falls back to any registered
\* session when the header names none.
SessionLookup_AnySession(sessionId) ==
    IF sessionId # NoHeader /\ DOMAIN sessions # {}
        THEN IF sessionId \in DOMAIN sessions
                THEN sessions[sessionId]
                ELSE sessions[CHOOSE id \in DOMAIN sessions : TRUE]
        ELSE Null

\* Lines 281, 330, 343: sessionId ? sessions.get(sessionId) : null
SessionLookup(sessionId) ==
    IF sessionId # NoHeader /\ sessionId \in DOMAIN sessions
        THEN sessions[sessionId]
        ELSE Null

\* isInitializeRequest(req.body)
isInitializeRequest(body) == body = "initialize"

\* Line 289 without the isInitializeRequest test.
CreateAllowed_AnyBody(sessionId, body) == sessionId = NoHeader

\* Line 289 without the !sessionId test.
CreateAllowed_AnyHeader(sessionId, body) == isInitializeRequest(body)

\* Line 289: the condition of the session-creating branch.
CreateAllowed(sessionId, body) ==
    sessionId = NoHeader /\ isInitializeRequest(body)

\* Lines 310-314: the response of the reject branch of POST.
RejectPost ==
    [ status |-> 400, code |-> -32000,
      message |-> "Bad Request: No valid session ID provided" ]

\* Lines 333 and 346 answering as for a resource that does not exist.
RejectInvalidSession_NotFound ==
    [ status |-> 404, code |-> 0, message |-> "Session not found" ]

\* Lines 333 and 346: the response to a GET or DELETE without a session.
RejectInvalidSession ==
    [ status |-> 400, code |-> 0, message |-> "Invalid or missing session ID" ]

\* Line 293: sessionIdGenerator, randomUUID(): a value never returned before.
randomUUID ==
    << 1 + Cardinality({t \in Transports : tr[t].sessionId # NoHeader}) >>

\* The values a client may send as mcp-session-id: none, a string of its own,
\* or any id the server has issued (also one whose session is gone).
HeaderValues ==
    {NoHeader, ForgedId} \cup {tr[t].sessionId : t \in Transports}

\* Lines 294-296 keyed by the handler's sessionId (the request header, which
\* is undefined in this branch) instead of newSessionId.
onsessioninitialized_HeaderKey(t, newSessionId) ==
    [id \in DOMAIN sessions \cup {tr[t].header} |->
        IF id = tr[t].header THEN [transport |-> t, server |-> t]
                             ELSE sessions[id]]

\* Lines 294-296: onsessioninitialized(newSessionId) of transport t:
\* sessions.set(newSessionId, {transport, server}).
onsessioninitialized(t, newSessionId) ==
    [id \in DOMAIN sessions \cup {newSessionId} |->
        IF id = newSessionId THEN [transport |-> t, server |-> t]
                             ELSE sessions[id]]

\* Line 300 without the sessions.delete call.
oncloseSessions_NoDelete(t) == sessions

\* Line 300 with the test inverted: if (!transport.sessionId) ...
oncloseSessions_Inverted(t) ==
    IF tr[t].sessionId = NoHeader
        THEN [id \in DOMAIN sessions \ {tr[t].sessionId} |-> sessions[id]]
        ELSE sessions

\* Line 300 with sessions.clear() for sessions.delete(...).
oncloseSessions_Clear(t) ==
    IF tr[t].sessionId # NoHeader THEN << >> ELSE sessions

\* Line 300: if (transport.sessionId) sessions.delete(transport.sessionId)
oncloseSessions(t) ==
    IF tr[t].sessionId # NoHeader
        THEN [id \in DOMAIN sessions \ {tr[t].sessionId} |-> sessions[id]]
        ELSE sessions

\* Lines 299-302: transport.onclose of transport t, on the transport record:
\* the entry is removed when there is one, and server.close() is called.
oncloseTransport(t) ==
    [tr[t] EXCEPT
        !.phase = "closed",
        !.serverClosed = TRUE,
        !.closes = @ + 1,
        !.removed = IF tr[t].sessionId # NoHeader
                       /\ tr[t].sessionId \in DOMAIN sessions
                    THEN @ + 1 ELSE @]

\* Lines 315-323 with res.status(500).json sent whatever res.headersSent is.
CatchPost_AlwaysAnswers(e) ==
    [e EXCEPT !.status = 500, !.code = -32603,
              !.message = "Internal server error",
              !.responses = @ + 1]

\* Lines 315-323: the catch of POST /mcp, on the event e of a step in which
\* an exception was raised: the 500 is written when no header was sent.
CatchPost(e) ==
    IF e.fault = "early"
        THEN [e EXCEPT !.status = 500, !.code = -32603,
                       !.message = "Internal server error",
                       !.responses = @ + 1]
        ELSE e

\* Lines 284, 305, 337, 350: what a call of transport.handleRequest leaves of
\* the request: the transport's response unless it threw before sending one.
Handed(e, fault) ==
    [e EXCEPT !.fault = fault,
              !.responses = IF fault = "early" THEN 0 ELSE 1]

\* Lines 278-325: the try block of POST /mcp closed by its catch.
TryPost(e) == IF e.fault = "none" THEN e ELSE CatchPost(e)

\* Lines 328-351: GET and DELETE have no try block: an exception raised by
\* transport.handleRequest rejects the handler's promise.
NoTry(e) == IF e.fault = "none" THEN e ELSE [e EXCEPT !.escaped = TRUE]

\* Lines 290-302: the transport just built, with its server, for the POST
\* that carried `header`, without the closure callback.
BuiltTransport_Unbound(header) ==
    [NoTransport EXCEPT !.phase = "connecting", !.header = header]

\* Lines 290-302: the transport just built, with its server, for the POST
\* that carried `header`: not initialized, onclose bound.
BuiltTransport(header) ==
    [NoTransport EXCEPT !.phase = "connecting", !.onclose = TRUE,
                        !.header = header]

\* Lines 278-325: POST /mcp up to its first suspension.
\*   forward: session.transport.handleRequest(req, res, req.body); the
\*            transport of a registered session is initialized already and
\*            calls neither onsessioninitialized nor onclose for a POST
\*   create : buildMcpServer(), new transport, onclose bound, server.connect
\*   reject : 400 with code -32000 (writing this literal does not throw)
Post(header, body, fault) ==
    LET session == SessionLookup(header)
        e == [NoEvent EXCEPT !.method = "POST", !.header = header,
                             !.body = body]
    IN
    /\ IF session # Null
          THEN /\ last' = TryPost(Handed([e EXCEPT !.disp = "forward",
                                    !.target = session.transport], fault))
               /\ UNCHANGED <<sessions, tr>>
          ELSE IF CreateAllowed(header, body)
          THEN \E t \in Transports :
               /\ fault = "none"
               /\ tr[t].phase = "none"
               /\ \A u \in Transports : u < t => tr[u].phase # "none"
               /\ tr' = [tr EXCEPT ![t] = BuiltTransport(header)]
               /\ last' = [e EXCEPT !.disp = "create", !.target = t]
               /\ UNCHANGED sessions
          ELSE /\ fault = "none"
               /\ last' = [e EXCEPT !.disp = "reject",
                                !.status = RejectPost.status,
                                !.code = RejectPost.code,
                                !.message = RejectPost.message,
                                !.responses = 1]
               /\ UNCHANGED <<sessions, tr>>
    /\ UNCHANGED <<lookupVars, textVars>>

\* Lines 304-306 with 293-296: server.connect has resolved and the
\* initialize message is handed to the new transport.  The transport either
\* accepts it (it generates its session id and calls onsessioninitialized) or
\* refuses it (headers or protocol version it does not accept, or
\* server.connect rejected) and stays without a session; either way the call
\* may throw, into the catch of lines 315-323.
InitializeHandled(t, accepted, fault) ==
    /\ tr[t].phase = "connecting"
    /\ IF accepted
          THEN /\ tr' = [tr EXCEPT ![t] = [@ EXCEPT !.phase = "live",
                                                    !.sessionId = randomUUID]]
               /\ sessions' = onsessioninitialized(t, randomUUID)
          ELSE /\ tr' = [tr EXCEPT ![t] = [@ EXCEPT !.phase = "refused"]]
               /\ UNCHANGED sessions
    /\ last' = TryPost(Handed(
                 [NoEvent EXCEPT !.method = "POST", !.header = tr[t].header,
                     !.body = "initialize",
                     !.disp = IF accepted THEN "initialized" ELSE "refused",
                     !.target = t], fault))
    /\ UNCHANGED <<lookupVars, textVars>>

\* Lines 328-338: GET /mcp.
Get(header, fault) ==
    LET session == SessionLookup(header)
        e == [NoEvent EXCEPT !.method = "GET", !.header = header]
    IN
    /\ IF session # Null
          THEN last' = NoTry(Handed([e EXCEPT !.disp = "forward",
                                !.target = session.transport], fault))
          ELSE /\ fault = "none"
               /\ last' = [e EXCEPT !.disp = "reject",
                                !.status = RejectInvalidSession.status,
                                !.message = RejectInvalidSession.message,
                                !.responses = 1]
    /\ UNCHANGED <<sessions, tr, lookupVars, textVars>>

\* Lines 341-351: DELETE /mcp.  A forwarded DELETE is the explicit
\* termination message: the transport closes itself when it processes it,
\* unless the call threw.
Delete(header, fault) ==
    LET session == SessionLookup(header)
        e == [NoEvent EXCEPT !.method = "DELETE", !.header = header]
    IN
    /\ IF session # Null
          THEN /\ last' = NoTry(Handed([e EXCEPT !.disp = "forward",
                                !.target = session.transport], fault))
               /\ IF fault = "none"
                    THEN /\ tr[session.transport].pending < MaxPending
                         /\ tr' = [tr EXCEPT
                                    ![session.transport].pending = @ + 1]
                    ELSE UNCHANGED tr
          ELSE /\ fault = "none"
               /\ last' = [e EXCEPT !.disp = "reject",
                                !.status = RejectInvalidSession.status,
                                !.message = RejectInvalidSession.message,
                                !.responses = 1]
               /\ UNCHANGED tr
    /\ UNCHANGED <<sessions, lookupVars, textVars>>

\* Lines 299-302: the transport processes a DELETE handed to it at line 350:
\* it closes and calls onclose.
TransportTerminates(t) ==
    /\ tr[t].pending > 0
    /\ sessions' = oncloseSessions(t)
    /\ tr' = [tr EXCEPT ![t] = [oncloseTransport(t) EXCEPT !.pending = @ - 1]]
    /\ last' = [NoEvent EXCEPT !.disp = "terminated", !.target = t]
    /\ UNCHANGED <<lookupVars, textVars>>

\* Lines 299-302: the transport of a session reports closure for a reason of
\* its own and calls onclose.
TransportCloses(t) ==
    /\ tr[t].phase = "live"
    /\ sessions' = oncloseSessions(t)
    /\ tr' = [tr EXCEPT ![t] = oncloseTransport(t)]
    /\ last' = [NoEvent EXCEPT !.disp = "closed", !.target = t]
    /\ UNCHANGED <<lookupVars, textVars>>

NextDispatch ==
    \/ \E header \in HeaderValues, body \in PostBodies, fault \in Faults :
            Post(header, body, fault)
    \/ \E t \in Transports, accepted \in BOOLEAN, fault \in Faults :
            InitializeHandled(t, accepted, fault)
    \/ \E header \in HeaderValues, fault \in Faults : Get(header, fault)
    \/ \E header \in HeaderValues, fault \in Faults : Delete(header, fault)
    \/ \E t \in Transports : TransportTerminates(t)
    \/ \E t \in Transports : TransportCloses(t)

\* ------------------------------------------------ relationship resolver

\* Side-loaded resources of a JSON:API document.  An attribute that is absent
\* is "", which the || of line 81 treats as it treats undefined.
Resources ==
    { [type |-> "taxonomy_term", id |-> "X", name |-> "Oil", title |-> ""],
      [type |-> "taxonomy_term", id |-> "X", name |-> "Wax", title |-> "Note"],
      [type |-> "taxonomy_term", id |-> "Y", name |-> "",    title |-> ""],
      [type |-> "node",          id |-> "X", name |-> "",    title |-> "Vase"],
      [type |-> "node",          id |-> "Y", name |-> "Ink", title |-> "Pen"] }

\* Relationship references: {type, id}.
Refs ==
    [type : {"taxonomy_term", "node"}, id : {"X", "Y"}]

\* Sequences over S of length at most n.
SeqUpTo(S, n) == UNION {[1..k -> S] : k \in 0..n}

\* The documents: payload.included missing, or a list of resources.
Payloads ==
    {[has |-> FALSE, included |-> << >>]}
        \cup {[has |-> TRUE, included |-> inc] :
                    inc \in SeqUpTo(Resources, MaxIncluded)}

\* The values of relationships.<field>.data: missing or null, one reference,
\* or a list of references.
RelData ==
    {[kind |-> "absent", refs |-> << >>]}
        \cup {[kind |-> "single", refs |-> << r >>] : r \in Refs}
        \cup {[kind |-> "list", refs |-> rs] : rs \in SeqUpTo(Refs, MaxRefs)}

\* Line 77: included.find((x) => x.type === ref.type && x.id === ref.id),
\* from index i on: the index of the first match, 0 when there is none.
RECURSIVE find(_, _, _)
find(included, ref, i) ==
    IF i > Len(included) THEN 0
    ELSE IF included[i].type = ref.type /\ included[i].id = ref.id THEN i
    ELSE find(included, ref, i + 1)

\* Lines 76-82 with the two attributes tried in the other order.
resolveOne_TitleFirst(included, ref) ==
    LET i == find(included, ref, 1) IN
    IF i = 0 THEN ""
    ELSE IF included[i].title # "" THEN included[i].title
    ELSE included[i].name

\* Lines 76-82: resolveOne; null is "".
resolveOne(included, ref) ==
    LET i == find(included, ref, 1) IN
    IF i = 0 THEN ""
    ELSE IF included[i].name # "" THEN included[i].name
    ELSE included[i].title

\* Boolean(x) of line 85, on a name or null.
Truthy(x) == x # ""

\* Lines 84-86 without .filter(Boolean).
resolveList_Unfiltered(included, refs) ==
    [k \in 1..Len(refs) |-> resolveOne(included, refs[k])]

\* Lines 84-86: relData.map(resolveOne).filter(Boolean)
resolveList(included, refs) ==
    SelectSeq([k \in 1..Len(refs) |-> resolveOne(included, refs[k])], Truthy)

\* Lines 71-89: resolveIncludedNames.  The result is null, a string or a list.
resolveIncludedNames(payload, relData) ==
    IF ~payload.has \/ relData.kind = "absent"
        THEN [kind |-> "null", value |-> << >>]
    ELSE IF relData.kind = "list"
        THEN [kind |-> "list",
              value |-> resolveList(payload.included, relData.refs)]
    ELSE LET n == resolveOne(payload.included, relData.refs[1]) IN
         IF n = "" THEN [kind |-> "null", value |-> << >>]
                   ELSE [kind |-> "string", value |-> << n >>]

\* No application of resolveIncludedNames.
NoNames ==
    [ done |-> FALSE,
      payload |-> [has |-> FALSE, included |-> << >>],
      relData |-> [kind |-> "absent", refs |-> << >>],
      result |-> [kind |-> "null", value |-> << >>] ]

\* Lines 170-175: lookupOperaByInventario applies resolveIncludedNames to the
\* document and one relationship of the item.
ResolveNames ==
    /\ ~names.done
    /\ names' = [names EXCEPT !.done = TRUE,
                    !.result = resolveIncludedNames(names.payload,
                                                    names.relData)]
    /\ UNCHANGED <<lookupVars, dispatchVars, strip>>

\* ------------------------------------------------------------ stripHtml

\* A string is a sequence of tokens: one of the characters "<", ">", "/",
\* " ", "\n", or a run of letters ("script", "SCRIPT", "style", "p", "Hi",
\* "bad").  The regular expressions of lines 63-66 only tell these apart.
Fragments ==
    { << "<", "script", ">" >>,
      << "<", "SCRIPT", ">" >>,
      << "<", "/", "script", ">" >>,
      << "<", "/", "script", " ", ">" >>,
      << "<", "style", ">" >>,
      << "<", "/", "style", ">" >>,
      << "<", "p", ">" >>,
      << "Hi" >>,
      << "bad" >>,
      << " " >>,
      << "\n" >>,
      << "<" >>,
      << ">" >> }

RECURSIVE Concat(_)
Concat(frags) ==
    IF frags = << >> THEN << >> ELSE Head(frags) \o Concat(Tail(frags))

\* The descriptions: a.field_descrizione.processed or .value, or "".
Htmls == {Concat(fs) : fs \in SeqUpTo(Fragments, MaxFrags)}

\* The i flag of lines 63-64, on a token.
Lower(t) == IF t = "SCRIPT" THEN "script" ELSE t

\* \s of line 66, on a token.
IsSpace(t) == t \in {" ", "\n"}

\* The pattern pat (lower case) matches s at index i, ignoring case.
MatchesAt(s, i, pat) ==
    /\ i >= 1
    /\ i + Len(pat) - 1 <= Len(s)
    /\ \A k \in 1..Len(pat) : Lower(s[i + k - 1]) = pat[k]

\* The least index from i on at which pat matches, 0 when there is none.
RECURSIVE FirstFrom(_, _, _)
FirstFrom(s, i, pat) ==
    IF i > Len(s) THEN 0
    ELSE IF MatchesAt(s, i, pat) THEN i
    ELSE FirstFrom(s, i + 1, pat)

\* Lines 63-64: .replace(/<tag[\s\S]*?>[\s\S]*?<\/tag>/gi, ""), from index i
\* on: "<tag", lazily up to the first ">", lazily up to the first "</tag>".
RECURSIVE removeBlocks(_, _, _)
removeBlocks(s, tag, i) ==
    IF i > Len(s) THEN << >>
    ELSE LET open  == MatchesAt(s, i, << "<", tag >>)
             gt    == IF open THEN FirstFrom(s, i + 2, << ">" >>) ELSE 0
             close == IF gt = 0 THEN 0
                      ELSE FirstFrom(s, gt + 1, << "<", "/", tag, ">" >>)
         IN IF close # 0
               THEN removeBlocks(s, tag, close + 4)
               ELSE << s[i] >> \o removeBlocks(s, tag, i + 1)

\* Line 65 without the g flag: only the first tag is replaced.
RECURSIVE stripTags_FirstOnly(_, _)
stripTags_FirstOnly(s, i) ==
    IF i > Len(s) THEN << >>
    ELSE LET gt == IF s[i] = "<" THEN FirstFrom(s, i + 1, << ">" >>) ELSE 0
         IN IF gt >= i + 2
               THEN << " " >> \o SubSeq(s, gt + 1, Len(s))
               ELSE << s[i] >> \o stripTags_FirstOnly(s, i + 1)

\* Line 65: .replace(/<\/?[^>]+>/g, " "), from index i on: "<", at least one
\* token that is not ">", then ">".
RECURSIVE stripTags(_, _)
stripTags(s, i) ==
    IF i > Len(s) THEN << >>
    ELSE LET gt == IF s[i] = "<" THEN FirstFrom(s, i + 1, << ">" >>) ELSE 0
         IN IF gt >= i + 2
               THEN << " " >> \o stripTags(s, gt + 1)
               ELSE << s[i] >> \o stripTags(s, i + 1)

\* Line 66: .replace(/\s+/g, " "), from index i on.
RECURSIVE collapseSpace(_, _)
collapseSpace(s, i) ==
    IF i > Len(s) THEN << >>
    ELSE IF IsSpace(s[i])
        THEN IF i > 1 /\ IsSpace(s[i - 1])
                THEN collapseSpace(s, i + 1)
                ELSE << " " >> \o collapseSpace(s, i + 1)
    ELSE << s[i] >> \o collapseSpace(s, i + 1)

\* Line 67: .trim()
RECURSIVE trim(_)
trim(s) ==
    IF s = << >> THEN s
    ELSE IF IsSpace(s[1]) THEN trim(Tail(s))
    ELSE IF IsSpace(s[Len(s)]) THEN trim(SubSeq(s, 1, Len(s) - 1))
    ELSE s

\* Lines 60-68: stripHtml.
stripHtml(html) ==
    IF html = << >> THEN << >>
    ELSE trim(collapseSpace(stripTags(
            removeBlocks(removeBlocks(html, "script", 1), "style", 1), 1), 1))

\* No application of stripHtml.
NoStrip == [done |-> FALSE, html |-> << >>, text |-> << >>]

\* Lines 177-178: lookupOperaByInventario applies stripHtml to the
\* description of the item.
StripDescription ==
    /\ ~strip.done
    /\ strip' = [strip EXCEPT !.done = TRUE, !.text = stripHtml(strip.html)]
    /\ UNCHANGED <<lookupVars, dispatchVars, names>>

\* ------------------------------------------------------- specifications

\* The process after module evaluation, as the repository ships it: no
\* session, no transport, no tool invocation.  The handlers of /mcp read
\* neither basicAuth nor call.
Init ==
    /\ basicAuth = "unbound"
    /\ call = [c \in Calls |-> IdleCall]
    /\ sessions = << >>
    /\ tr = [t \in Transports |-> NoTransport]
    /\ last = NoEvent
    /\ names = NoNames
    /\ strip = NoStrip

\* The same, in each environment DRUPAL_BASIC_AUTH may resolve in.
InitLookup ==
    /\ basicAuth \in BasicAuthValues
    /\ call = [c \in Calls |-> IdleCall]
    /\ sessions = << >>
    /\ tr = [t \in Transports |-> NoTransport]
    /\ last = NoEvent
    /\ names = NoNames
    /\ strip = NoStrip

\* A document and one of its relationships, about to be resolved.
InitNames ==
    /\ basicAuth = "unbound"
    /\ call = [c \in Calls |-> IdleCall]
    /\ sessions = << >>
    /\ tr = [t \in Transports |-> NoTransport]
    /\ last = NoEvent
    /\ names \in [done : {FALSE}, payload : Payloads, relData : RelData,
                   result : {NoNames.result}]
    /\ strip = NoStrip

\* A description, about to be stripped.
InitStrip ==
    /\ basicAuth = "unbound"
    /\ call = [c \in Calls |-> IdleCall]
    /\ sessions = << >>
    /\ tr = [t \in Transports |-> NoTransport]
    /\ last = NoEvent
    /\ names = NoNames
    /\ strip \in [done : {FALSE}, html : Htmls, text : {<< >>}]

\* The dispatcher and the session registry.
Spec == Init /\ [][NextDispatch]_vars

\* The tool handler and the content resolver.
SpecLookup == InitLookup /\ [][NextLookup]_vars

\* The relationship resolver, on every document and reference of the bounds.
SpecNames == InitNames /\ [][ResolveNames]_vars

\* stripHtml, on every description of the bounds.
SpecStrip == InitStrip /\ [][StripDescription]_vars

\* --------------------------------------------------------------- claims

\* The step just taken handled an inbound message at its arrival.
Arrival(e) == e.disp \in {"forward", "create", "reject"}

\* C1: every lookup that has completed returned Found, NotFound or
\* RequestFailed, and none completed by throwing to the tool handler.
C1_LookupNeverThrows ==
    \A c \in Calls :
        call[c].pc = "done" =>
            /\ call[c].thrown = "none"
            /\ call[c].outcome.tag \in {"Found", "NotFound", "RequestFailed"}

\* C2: the verbose query is made if and only if the compact query completed
\* with status 400 or 403, and then once; the compact query is always the
\* first; any other failure of the first query ends the lookup as
\* RequestFailed with that status and one query made; a successful first
\* query is the only query.
C2_VerboseIffRejectedFilter ==
    \A c \in Calls :
        LET made == call[c].issued IN
        /\ Len(made) <= 2
        /\ Len(made) >= 1 => made[1].filter = "compact"
        /\ Len(made) = 2 => made[2].filter = "verbose"
        /\ Len(made) = 2 <=> call[c].first \in {400, 403}
        /\ (call[c].first # 0 /\ call[c].first \notin {400, 403}
                /\ ~ResponseOk(call[c].first)) =>
              /\ call[c].pc = "done"
              /\ call[c].outcome.tag = "RequestFailed"
              /\ call[c].outcome.status = call[c].first
              /\ Len(made) = 1
        /\ (call[c].first # 0 /\ ResponseOk(call[c].first)) =>
              /\ call[c].pc = "done"
              /\ Len(made) = 1

\* C2 witness: a lookup whose compact query was answered 403 made the verbose
\* query, which was answered 400, and ended there as RequestFailed(400) with
\* two queries made.
C2_RetriedOnce ==
    \E c \in Calls :
        /\ call[c].first = 403
        /\ call[c].pc = "done"
        /\ Len(call[c].issued) = 2
        /\ call[c].outcome.tag = "RequestFailed"
        /\ call[c].outcome.status = 400

\* C3: a lookup whose request was aborted by the timeout ends as
\* RequestFailed in the tool's structured result, with no request made after
\* the abort.
C3_TimeoutIsRequestFailed ==
    \A c \in Calls :
        call[c].aborted =>
            /\ call[c].pc = "done"
            /\ call[c].result = "structured"
            /\ call[c].outcome.tag = "RequestFailed"

\* C4: a POST that is no initialization request and has no session id, or a
\* session id the registry does not hold, is answered 400 with code -32000,
\* and the step that handles it changes neither the registry nor any
\* transport.
C4_Step ==
    ( /\ last'.method = "POST"
      /\ Arrival(last')
      /\ ~isInitializeRequest(last'.body)
      /\ (last'.header = NoHeader \/ last'.header \notin DOMAIN sessions) )
    => /\ last'.disp = "reject"
       /\ last'.status = 400
       /\ last'.code = -32000
       /\ last'.target = 0
       /\ sessions' = sessions
       /\ tr' = tr

C4_NonInitPostWithoutSessionRejected == [][C4_Step]_vars

\* C4 witness: with a session registered, a tools/call POST carrying the id of
\* a session that is gone has been answered 400 / -32000.
C4_StalePostRejected ==
    /\ last.method = "POST"
    /\ last.body = "tools/call"
    /\ last.disp = "reject"
    /\ last.code = -32000
    /\ last.header \notin {NoHeader, ForgedId}
    /\ DOMAIN sessions # {}

\* C5: a GET or DELETE with no session id, or one the registry does not hold,
\* is answered 400 "Invalid or missing session ID", and the step that handles
\* it changes neither the registry nor any transport.
C5_Step ==
    ( /\ last'.method \in {"GET", "DELETE"}
      /\ Arrival(last')
      /\ (last'.header = NoHeader \/ last'.header \notin DOMAIN sessions) )
    => /\ last'.disp = "reject"
       /\ last'.status = 400
       /\ last'.message = "Invalid or missing session ID"
       /\ last'.target = 0
       /\ sessions' = sessions
       /\ tr' = tr

C5_GetDeleteWithoutSessionRejected == [][C5_Step]_vars

\* C5 witness: with a session registered and a DELETE pending on it, a DELETE
\* carrying an id the server never issued has been rejected.
C5_ForgedDeleteRejected ==
    /\ last.method = "DELETE"
    /\ last.disp = "reject"
    /\ last.header = ForgedId
    /\ \E t \in Transports : tr[t].phase = "live" /\ tr[t].pending > 0

\* C6: a step adds an entry to the registry only when it hands to a new
\* transport the initialization POST that carried no session id.
C6_Step ==
    (\E id \in DOMAIN sessions' : id \notin DOMAIN sessions)
    => /\ last'.method = "POST"
       /\ last'.header = NoHeader
       /\ isInitializeRequest(last'.body)
       /\ last'.disp = "initialized"

C6_OnlyHeaderlessInitRegisters == [][C6_Step]_vars

\* C6 witness: a second session has just been registered by an
\* initialization POST without session id.
C6_SecondSessionRegistered ==
    /\ last.disp = "initialized"
    /\ last.header = NoHeader
    /\ Cardinality(DOMAIN sessions) = 2

\* C7: the step in which a transport reports closure leaves its session id
\* out of the registry, and the entry of a session is removed once: never
\* twice, and once when its transport has reported closure.
C7_Step ==
    \A t \in Transports :
        (last'.disp \in {"closed", "terminated"} /\ last'.target = t)
        => /\ tr'[t].phase = "closed"
           /\ tr'[t].sessionId \notin DOMAIN sessions'

C7_RemovedOnce ==
    \A t \in Transports :
        /\ tr[t].removed <= 1
        /\ (tr[t].phase = "closed" /\ tr[t].sessionId # NoHeader)
              => tr[t].removed = 1
        /\ tr[t].phase \in {"none", "connecting", "refused", "live"}
              => tr[t].removed = 0

C7_DeregisteredWithClosure == [][C7_Step]_vars /\ []C7_RemovedOnce

\* C7 witness: a transport that had already reported closure has processed a
\* pending DELETE and reported closure again; its entry was removed once.
C7_ClosedTwiceRemovedOnce ==
    \E t \in Transports :
        /\ last.disp = "terminated"
        /\ last.target = t
        /\ tr[t].closes = 2
        /\ tr[t].removed = 1
        /\ tr[t].sessionId \notin DOMAIN sessions
        /\ \E u \in Transports : u # t /\ tr[u].phase = "live"

\* C8: a lookup of the id of a registered session returns that session's
\* transport and server; a lookup of the id of a removed session returns
\* null.
C8_LookupFollowsRegistry ==
    \A t \in Transports :
        /\ tr[t].phase = "live" =>
              SessionLookup(tr[t].sessionId) = [transport |-> t, server |-> t]
        /\ tr[t].phase = "closed" =>
              SessionLookup(tr[t].sessionId) = Null
        /\ tr[t].phase \in {"live", "closed"} <=> tr[t].sessionId # NoHeader

\* C8 witness: the session of one transport was registered and has just been
\* removed; the lookup of its id gives null while the lookup of another
\* registered session's id gives that session.
C8_RegisteredThenRemoved ==
    \E t, u \in Transports :
        /\ last.disp = "closed"
        /\ last.target = t
        /\ SessionLookup(tr[t].sessionId) = Null
        /\ tr[u].phase = "live"
        /\ SessionLookup(tr[u].sessionId).transport = u

\* C9: no registry entry belongs to a transport that has reported closure.
C9_NoClosedSessionRegistered ==
    \A id \in DOMAIN sessions :
        /\ sessions[id].transport \in Transports
        /\ tr[sessions[id].transport].phase # "closed"
        /\ ~tr[sessions[id].transport].serverClosed

\* C9 witness: one session is registered, with a DELETE handed to its
\* transport and not yet processed, while another transport has reported
\* closure.
C9_RegisteredBesideClosed ==
    \E t, u \in Transports :
        /\ tr[t].phase = "live"
        /\ tr[t].pending > 0
        /\ tr[t].sessionId \in DOMAIN sessions
        /\ tr[u].phase = "closed"

\* C10: a message that carries a session id is forwarded to the transport of
\* the one session registered under that id, which has not reported closure,
\* or it is rejected; it never builds a transport.
C10_ForwardedToOwnLiveSession ==
    (Arrival(last) /\ last.header # NoHeader) =>
        \/ /\ last.disp = "forward"
           /\ last.target \in Transports
           /\ tr[last.target].sessionId = last.header
           /\ tr[last.target].phase = "live"
           /\ Cardinality({t \in Transports :
                               tr[t].sessionId = last.header}) = 1
        \/ /\ last.disp = "reject"
           /\ last.target = 0
           /\ last.header \notin DOMAIN sessions

\* C10 witness: with two sessions registered, a tools/call POST carrying the
\* id of the second was forwarded to the second session's transport.
C10_ForwardedToSecond ==
    /\ last.method = "POST"
    /\ last.body = "tools/call"
    /\ last.disp = "forward"
    /\ Cardinality(DOMAIN sessions) = 2
    /\ tr[last.target].sessionId = last.header
    /\ \E t \in Transports : t # last.target /\ tr[t].phase = "live"

\* C11: an exception raised while a POST is handled never leaves the
\* handler; the 500 / -32603 message is written exactly when the exception
\* came before any response header, and no POST gets two responses.
C11_PostFaultCaught ==
    last.method = "POST" =>
        /\ ~last.escaped
        /\ last.responses <= 1
        /\ (last.status = 500 <=> last.fault = "early")
        /\ last.status = 500 =>
              /\ last.code = -32603
              /\ last.message = "Internal server error"
              /\ last.responses = 1
        /\ last.fault = "late" => last.status = 0

\* C11 witness: the transport of a new session accepted the initialize
\* message, sent its response headers and then threw; the catch wrote nothing.
C11_LateFaultInCreateBranch ==
    /\ last.method = "POST"
    /\ last.disp = "initialized"
    /\ last.fault = "late"
    /\ last.responses = 1
    /\ last.status = 0

\* C12: an exception raised while a GET or DELETE of a registered session is
\* handled does not leave the handler, and is answered 500 / -32603 when no
\* response header was sent.
C12_GetDeleteFaultCaught ==
    (last.method \in {"GET", "DELETE"} /\ last.fault # "none") =>
        /\ ~last.escaped
        /\ last.fault = "early" => (last.status = 500 /\ last.code = -32603)

\* C13: a completed lookup made one or two outbound requests, each for its
\* own identifier.
C13_OneOrTwoRequests ==
    \A c \in Calls :
        /\ call[c].pc = "done" => Len(call[c].issued) \in {1, 2}
        /\ \A i \in 1..Len(call[c].issued) :
              call[c].issued[i].value = call[c].id

\* The data member of the document, as lines 158-159 read it, is missing:
\* no document, no data, null, or an empty list.
DataMissing(body) ==
    \/ ~body.text
    \/ ~body.parses
    \/ body.data \in {"absent", "null", "emptyList"}

\* C14: a lookup whose final response was successful with missing data
\* returned NotFound; one whose final response was not successful returned
\* RequestFailed with that response's status, whatever the body.
C14_OutcomeOfFinalResponse ==
    \A c \in Calls :
        call[c].result = "structured" =>
            /\ (ResponseOk(call[c].status) /\ DataMissing(call[c].final)) =>
                  call[c].outcome =
                      [tag |-> "NotFound", status |-> call[c].status,
                       details |-> "none"]
            /\ ~ResponseOk(call[c].status) =>
                  /\ call[c].outcome.tag = "RequestFailed"
                  /\ call[c].outcome.status = call[c].status

\* C14 witness: the retried query was answered 200 with data: [] and the
\* lookup returned NotFound.
C14_EmptyListAfterRetry ==
    \E c \in Calls :
        /\ call[c].result = "structured"
        /\ Len(call[c].issued) = 2
        /\ call[c].status = 200
        /\ call[c].final.data = "emptyList"
        /\ call[c].outcome.tag = "NotFound"

\* The index in included of the first resource with the type and id of ref,
\* 0 when there is none.
FirstMatch(included, ref) ==
    LET hits == {j \in 1..Len(included) :
                    included[j].type = ref.type /\ included[j].id = ref.id}
    IN IF hits = {} THEN 0
       ELSE CHOOSE j \in hits : \A k \in hits : j <= k

\* The display name of ref: the name attribute, else the title attribute, of
\* its first match; "" when there is no match or neither attribute.
Display(included, ref) ==
    LET j == FirstMatch(included, ref) IN
    IF j = 0 THEN ""
    ELSE IF included[j].name # "" THEN included[j].name
    ELSE included[j].title

\* C15: the result of resolveIncludedNames is null without a side-loaded set
\* or without a reference; for one reference it is its display name, or null
\* when it has none; for a list it is the display names of the references
\* that have one, in the order of the references.
C15_ResolvedNames ==
    names.done =>
        LET inc  == names.payload.included
            refs == names.relData.refs
            res  == names.result
            kept == {i \in 1..Len(refs) : Display(inc, refs[i]) # ""}
        IN
        /\ (~names.payload.has \/ names.relData.kind = "absent") =>
              res.kind = "null"
        /\ (names.payload.has /\ names.relData.kind = "single") =>
              IF Display(inc, refs[1]) = ""
                 THEN res.kind = "null"
                 ELSE res = [kind |-> "string",
                             value |-> << Display(inc, refs[1]) >>]
        /\ (names.payload.has /\ names.relData.kind = "list") =>
              /\ res.kind = "list"
              /\ Len(res.value) = Cardinality(kept)
              /\ \A i \in kept :
                    res.value[Cardinality({j \in kept : j <= i})]
                        = Display(inc, refs[i])

\* C15 witness: a list of two references, the first without a match, the
\* second matching a resource that has only a title, resolved to one name.
C15_ListWithUnmatchedDropped ==
    /\ names.done
    /\ names.relData.kind = "list"
    /\ Len(names.relData.refs) = 2
    /\ Display(names.payload.included, names.relData.refs[1]) = ""
    /\ names.result = [kind |-> "list", value |-> << "Vase" >>]

\* C16: stripping the output of stripHtml gives that output again.
C16_StripIdempotent ==
    strip.done => stripHtml(strip.text) = strip.text

\* C16 witness: a description of a paragraph tag, a word and a line break
\* was stripped to the word.
C16_TagAndSpaceStripped ==
    /\ strip.done
    /\ strip.html = << "<", "p", ">", "Hi", "\n" >>
    /\ strip.text = << "Hi" >>

\* The token at index p of s lies in a script or style element: after the
\* ">" of an opening tag, with no closing tag of that element (which may
\* have white space before its ">") in between.
ClosesAt(s, q, tag) ==
    /\ MatchesAt(s, q, << "<", "/", tag >>)
    /\ \E g \in (q + 3)..Len(s) :
          /\ s[g] = ">"
          /\ \A k \in (q + 3)..(g - 1) : IsSpace(s[k])

InBlock(s, p) ==
    \E tag \in {"script", "style"} :
        \E i \in 1..p :
            /\ MatchesAt(s, i, << "<", tag >>)
            /\ \E g \in (i + 2)..(p - 1) :
                  /\ s[g] = ">"
                  /\ \A k \in (i + 2)..(g - 1) : s[k] # ">"
                  /\ \A q \in (g + 1)..(p - 1) : ~ClosesAt(s, q, tag)

\* C17: when the text "bad" occurs in the input only inside script or style
\* elements, it does not occur in the output.
C17_NoScriptContentLeft ==
    (strip.done /\ \A p \in 1..Len(strip.html) :
                        strip.html[p] = "bad" => InBlock(strip.html, p))
    => \A k \in 1..Len(strip.text) : strip.text[k] # "bad"

\* C18: a transport whose initialize POST is still being handled has no
\* session id and no registry entry, and has its closure callback bound;
\* every registered session's transport has the closure callback bound.
C18_CallbackBoundBeforeRegistered ==
    /\ \A t \in Transports :
          tr[t].phase = "connecting" =>
              /\ tr[t].onclose
              /\ tr[t].sessionId = NoHeader
              /\ \A id \in DOMAIN sessions : sessions[id].transport # t
    /\ \A id \in DOMAIN sessions :
          /\ tr[sessions[id].transport].onclose
          /\ tr[sessions[id].transport].sessionId = id

\* C18 witness: an initialize POST is between server.connect and the
\* hand-off to its transport while another session is registered.
C18_ConnectingBesideRegistered ==
    \E t, u \in Transports :
        /\ tr[t].phase = "connecting"
        /\ tr[u].phase = "live"
        /\ tr[u].sessionId \in DOMAIN sessions
        /\ last.disp = "create"

\* C19: a step leaves the registry entry and the transport of every session
\* other than the one it acts on unchanged.
C19_Step ==
    \A id \in DOMAIN sessions :
        last'.target # sessions[id].transport =>
            /\ id \in DOMAIN sessions'
            /\ sessions'[id] = sessions[id]
            /\ tr'[sessions[id].transport] = tr[sessions[id].transport]

C19_SessionsIndependent == [][C19_Step]_vars

\* C19 witness: one session's transport has just processed its DELETE and
\* reported closure for the first time while another session is registered.
C19_OneClosedOtherKept ==
    \E t, u \in Transports :
        /\ last.disp = "terminated"
        /\ last.target = t
        /\ tr[t].closes = 1
        /\ u # t
        /\ tr[u].sessionId \in DOMAIN sessions
        /\ sessions[tr[u].sessionId].transport = u

\* C20: the timer of fetchJson is armed exactly while the request or the
\* body read is pending: no completed lookup has a timer armed, and an abort
\* belongs to a lookup that ended with the AbortError.
C20_TimerClearedOnEveryExit ==
    \A c \in Calls :
        /\ call[c].pc \in {"awaitResponse", "awaitBody"} => call[c].timer
        /\ call[c].pc \in {"idle", "done"} => ~call[c].timer
        /\ call[c].aborted =>
              (call[c].pc = "done" /\ call[c].thrown = "AbortError")

\* C20 witness: the timer armed for the verbose query is still armed while
\* the body of its response is read.
C20_TimerArmedDuringBody ==
    \E c \in Calls :
        /\ call[c].pc = "awaitBody"
        /\ Len(call[c].issued) = 2
        /\ call[c].timer

====
